---- MODULE Spec2Model ----
(***************************************************************************)
(* A model of reformer-fastai's basic transformer (basic_transformer.py)   *)
(* and byte tokenizer (basic_tokenizers.py).                               *)
(*                                                                         *)
(* One object is constructed (obj, from the arguments args) and one method *)
(* of it is called (call).                                                 *)
(* Tensors are modelled for one batch element and one head: masks are      *)
(* broadcast over heads and batch elements do not interact.  An optional   *)
(* Python value is the empty tuple (None) or a one-element tuple.          *)
(* Real numbers are fixed-point integers (Fix); a softmax weight is        *)
(* modelled by whether float32 computes it as exactly zero.                *)
(***************************************************************************)
EXTENDS Integers, Sequences, FiniteSets, TLC

VARIABLES args, obj, call

vars == <<args, obj, call>>

\* ---------------------------------------------------------------- bounds
\* longest sequence (query, key, source, target) of a forward pass
MaxSeq == 2
\* longest string (in code points) given to the tokenizer
MaxStrLen == 2
\* deepest stack of blocks constructed
MaxDepth == 2

\* ---------------------------------------------------------------- helpers
None == <<>>

Some(v) == <<v>>

exists(val) == val # None

\* default(val, d): d is always a value here (a tensor or None), never a
\* plain function, except the lambdas of Attention.forward, which are passed
\* already evaluated.
default(val, d) == IF exists(val) THEN val ELSE d

Opt(S) == {None} \cup {Some(v) : v \in S}

Masks(n) == [1..n -> BOOLEAN]

\* fixed-point representation of a real number
Fix(x) == x * 1000

\* the integer square root
Isqrt(x) == CHOOSE r \in 0..x : r * r <= x /\ x < (r + 1) * (r + 1)

\* x ** -0.5 in fixed point
InvSqrt(x) == Isqrt((Fix(1) * Fix(1)) \div x)

MASK_VAL == Fix(-10000)

\* ---------------------------------------------------------------- Attention
DefaultHeads == 8

Attention_init(dim, heads, causal) ==
    [cls |-> "Attention", err |-> "none", dim |-> dim, heads |-> heads,
     causal |-> causal, scale |-> InvSqrt(dim)]

\* tensor.masked_fill_(m, val) on an i x j matrix
masked_fill(t, m, val) ==
    [i \in DOMAIN t |-> [j \in DOMAIN t[i] |-> IF m[i][j] THEN val ELSE t[i][j]]]

\* torch.ones((i, j)).triu_(k).bool(): true where column - row >= k
triu(i, j, k) == [r \in 1..i |-> [c \in 1..j |-> c - r >= k]]

RECURSIVE SeqMax(_)
SeqMax(s) ==
    IF Len(s) = 1 THEN s[1]
    ELSE LET m == SeqMax(Tail(s)) IN IF s[1] >= m THEN s[1] ELSE m

\* float32 exp(-gap) is exactly 0 once gap exceeds about 104
ExpIsZero(gap) == gap > Fix(104)

\* F.softmax(dots, -1), as the pattern of weights that are exactly zero:
\* weight = exp(d - rowmax) / sum, and the sum is at least exp(0) = 1
softmax_zero(dots) ==
    [i \in DOMAIN dots |->
        [j \in DOMAIN dots[i] |-> ExpIsZero(SeqMax(dots[i]) - dots[i][j])]]

\* a key mask that is always context_mask
k_mask_of_ctx(context, q_mask, context_mask) == context_mask

\* the key mask before its default: line 105
k_mask_of(context, q_mask, context_mask) ==
    IF ~exists(context) THEN Some(q_mask) ELSE context_mask

\* Attention.forward for x of n positions; context is None or Some(key
\* length); qk[i][j] is einsum('bhid,bhjd->bhij', q, k) for one head.
Attention_forward(self, n, context, mask, context_mask, qk) ==
    LET klen == IF exists(context) THEN context[1] ELSE n
        any == exists(mask) \/ exists(context_mask)
        q_mask == default(mask, Some([i \in 1..n |-> TRUE]))[1]
        k_mask0 == k_mask_of(context, q_mask, context_mask)
        k_mask == default(k_mask0, Some([j \in 1..klen |-> TRUE]))[1]
        input_mask ==
            IF any
            THEN Some([i \in 1..n |-> [j \in 1..klen |-> q_mask[i] /\ k_mask[j]]])
            ELSE None
        dots0 == [i \in 1..n |-> [j \in 1..klen |-> qk[i][j] * self.scale]]
        dots1 ==
            IF exists(input_mask)
            THEN masked_fill(dots0,
                     [i \in 1..n |-> [j \in 1..klen |-> ~input_mask[1][i][j]]],
                     MASK_VAL)
            ELSE dots0
        dots2 ==
            IF self.causal
            THEN masked_fill(dots1, triu(n, klen, klen - n + 1), MASK_VAL)
            ELSE dots1
    IN  IF self.dim % self.heads # 0
        THEN [fn |-> "Attention.forward", err |-> "EinopsError"]
        ELSE [fn |-> "Attention.forward", err |-> "none",
              n |-> n, klen |-> klen, context |-> context,
              mask |-> mask, context_mask |-> context_mask,
              dots_pad |-> dots1, dots |-> dots2,
              attn_zero |-> softmax_zero(dots2),
              shape |-> <<1, n, self.dim>>]

\* (dim, heads) of the Attention modules constructed on their own
AttnConfigs == {<<4, 1>>, <<16, 4>>}

QKVals == {-1, 1}

NewAttention ==
    /\ obj.cls = "none"
    /\ \E c \in AttnConfigs, causal \in BOOLEAN :
          /\ args' = [dim |-> c[1], heads |-> c[2], causal |-> causal]
          /\ obj' = Attention_init(c[1], c[2], causal)
    /\ UNCHANGED call

AttentionForward ==
    /\ obj.cls = "Attention"
    /\ call.fn = "none"
    /\ \E n \in 1..MaxSeq, context \in Opt(1..MaxSeq) :
          LET klen == IF exists(context) THEN context[1] ELSE n IN
          \E mask \in Opt(Masks(n)), context_mask \in Opt(Masks(klen)),
             qk \in [1..n -> [1..klen -> QKVals]] :
                call' = Attention_forward(obj, n, context, mask, context_mask, qk)
    /\ UNCHANGED <<args, obj>>

\* ---------------------------------------------------------------- tokenizer
\* the code points of the strings given to the tokenizer: "A", e-acute,
\* the euro sign and an emoji, of 1, 2, 3 and 4 UTF-8 bytes
Chars == {65, 233, 8364, 128512}

RECURSIVE Strings(_)
Strings(n) ==
    IF n = 0 THEN {<<>>}
    ELSE Strings(n - 1) \cup {Append(s, c) : s \in Strings(n - 1), c \in Chars}

\* str.encode("utf-8") of one code point
Utf8Encode(cp) ==
    IF cp < 128 THEN <<cp>>
    ELSE IF cp < 2048 THEN <<192 + (cp \div 64), 128 + (cp % 64)>>
    ELSE IF cp < 65536
         THEN <<224 + (cp \div 4096), 128 + ((cp \div 64) % 64), 128 + (cp % 64)>>
         ELSE <<240 + (cp \div 262144), 128 + ((cp \div 4096) % 64),
                128 + ((cp \div 64) % 64), 128 + (cp % 64)>>

RECURSIVE StrEncode(_)
StrEncode(s) ==
    IF s = <<>> THEN <<>> ELSE Utf8Encode(s[1]) \o StrEncode(Tail(s))

\* the number of continuation bytes a lead byte asks for, -1 for a byte
\* that cannot start a sequence
Utf8Need(b0) ==
    IF b0 < 128 THEN 0
    ELSE IF b0 >= 194 /\ b0 <= 223 THEN 1
    ELSE IF b0 >= 224 /\ b0 <= 239 THEN 2
    ELSE IF b0 >= 240 /\ b0 <= 244 THEN 3
    ELSE -1

\* whether byte c may be continuation byte number t after lead byte b0
Utf8ContOK(b0, t, c) ==
    LET lo == IF t = 1 /\ b0 = 224 THEN 160 ELSE IF t = 1 /\ b0 = 240 THEN 144 ELSE 128
        hi == IF t = 1 /\ b0 = 237 THEN 159 ELSE IF t = 1 /\ b0 = 244 THEN 143 ELSE 191
    IN  c >= lo /\ c <= hi

REPLACEMENT == 65533

\* bytes.decode("utf-8", "replace")
RECURSIVE Utf8Decode(_)
Utf8Decode(b) ==
    IF b = <<>> THEN <<>>
    ELSE LET b0 == b[1]
             need == Utf8Need(b0)
             ok(t) == t <= need /\ t + 1 <= Len(b) /\ Utf8ContOK(b0, t, b[t + 1])
             good == IF ~ok(1) THEN 0 ELSE IF ~ok(2) THEN 1 ELSE IF ~ok(3) THEN 2 ELSE 3
             cp == IF need = 0 THEN b0
                   ELSE IF need = 1 THEN (b0 - 192) * 64 + (b[2] - 128)
                   ELSE IF need = 2
                        THEN (b0 - 224) * 4096 + (b[2] - 128) * 64 + (b[3] - 128)
                        ELSE (b0 - 240) * 262144 + (b[2] - 128) * 4096
                             + (b[3] - 128) * 64 + (b[4] - 128)
         IN  IF need >= 0 /\ good = need
             THEN <<cp>> \o Utf8Decode(SubSeq(b, need + 2, Len(b)))
             ELSE <<REPLACEMENT>> \o Utf8Decode(SubSeq(b, good + 2, Len(b)))

\* '<pad>', '<eos>', '<bos>' as ascii bytes
reserved_tokens_bytes ==
    << <<60, 112, 97, 100, 62>>, <<60, 101, 111, 115, 62>>, <<60, 98, 111, 115, 62>> >>

numres == Len(reserved_tokens_bytes)

eos_token_id == 1

bos_token_id == 2

\* ByteTextTokenizer.vocab_size
vocab_size == 256 + numres

ByteTextTokenizer_init(is_lm, add_bos, add_eos) ==
    [cls |-> "ByteTextTokenizer", err |-> "none", ls_lm |-> is_lm,
     add_bos |-> add_bos, add_eos |-> add_eos]

\* an offset of the last reserved id instead of the reserved count
byte_id_last(c) == c + bos_token_id

\* the id of one byte: c + self.numres
byte_id(c) == c + numres

\* ByteTextTokenizer.__call__(o: str); LMTensorText and TensorText hold the
\* same ids
Tokenizer_call(self, o) ==
    LET bytes == StrEncode(o)
        out0 == [k \in 1..Len(bytes) |-> byte_id(bytes[k])]
        out1 == IF self.add_bos THEN <<bos_token_id>> \o out0 ELSE out0
        out2 == IF self.add_eos THEN out1 \o <<eos_token_id>> ELSE out1
    IN  out2

\* the bytes one id decodes to: lines 52-53
id_bytes(id_) ==
    IF 0 <= id_ /\ id_ < numres THEN reserved_tokens_bytes[id_ + 1]
    ELSE <<id_ - numres>>

RECURSIVE JoinIds(_)
JoinIds(o) == IF o = <<>> THEN <<>> ELSE id_bytes(o[1]) \o JoinIds(Tail(o))

\* ByteTextTokenizer.decodes(o: list), reached from the tensor overloads
\* through o.tolist()
Tokenizer_decodes(o) == Utf8Decode(JoinIds(o))

NewByteTextTokenizer ==
    /\ obj.cls = "none"
    /\ \E is_lm \in BOOLEAN, add_bos \in BOOLEAN, add_eos \in BOOLEAN :
          /\ args' = [is_lm |-> is_lm, add_bos |-> add_bos, add_eos |-> add_eos]
          /\ obj' = ByteTextTokenizer_init(is_lm, add_bos, add_eos)
    /\ UNCHANGED call

TokenizerCall ==
    /\ obj.cls = "ByteTextTokenizer"
    /\ call.fn = "none"
    /\ \E s \in Strings(MaxStrLen) :
          call' = [fn |-> "ByteTextTokenizer.__call__", err |-> "none",
                   s |-> s, ids |-> Tokenizer_call(obj, s)]
    /\ UNCHANGED <<args, obj>>

TokenizerDecodes ==
    /\ obj.cls = "ByteTextTokenizer"
    /\ call.fn = "ByteTextTokenizer.__call__"
    /\ call' = [fn |-> "ByteTextTokenizer.decodes", err |-> "none",
                s |-> call.s, ids |-> call.ids,
                decoded |-> Tokenizer_decodes(call.ids)]
    /\ UNCHANGED <<args, obj>>

\* ---------------------------------------------------------------- modules
\* self.<name> on an nn.Module: an attribute that was never assigned raises
HasAttr(self, name) == name \in DOMAIN self

Raise(cls, e) == [cls |-> cls, err |-> e]

\* nn.Embedding / nn.Linear: a fresh weight, named by the place of the module
Embedding(name, num, dim) ==
    [cls |-> "Embedding", num_embeddings |-> num, embedding_dim |-> dim,
     weight |-> <<name, "weight">>]

Linear(name, inf, outf) ==
    [cls |-> "Linear", in_features |-> inf, out_features |-> outf,
     weight |-> <<name, "weight">>]

Residual(fn) == [cls |-> "Residual", fn |-> fn]

PreNorm(dim, fn) == [cls |-> "PreNorm", dim |-> dim, fn |-> fn]

FeedForward_init(dim) == [cls |-> "FeedForward", dim |-> dim, hidden |-> dim * 4]

\* the block's heads argument is not handed to Attention, which takes its
\* default
TransformerEncoderBlock_init(dim, heads, causal) ==
    [cls |-> "TransformerEncoderBlock",
     attn |-> Residual(PreNorm(dim, Attention_init(dim, DefaultHeads, causal))),
     ff |-> Residual(PreNorm(dim, FeedForward_init(dim)))]

TransformerEncoder_init(dim, depth, heads, causal) ==
    [cls |-> "TransformerEncoder", dim |-> dim,
     layers |-> [l \in 1..depth |-> TransformerEncoderBlock_init(dim, heads, causal)]]

TransformerDecoderBlock_init(dim, heads) ==
    [cls |-> "TransformerDecoderBlock",
     attn |-> Residual(PreNorm(dim, Attention_init(dim, DefaultHeads, TRUE))),
     cross |-> Residual(PreNorm(dim, Attention_init(dim, DefaultHeads, FALSE))),
     ff |-> Residual(PreNorm(dim, FeedForward_init(dim)))]

TransformerDecoder_init(dim, depth, heads) ==
    [cls |-> "TransformerDecoder", dim |-> dim,
     layers |-> [l \in 1..depth |-> TransformerDecoderBlock_init(dim, heads)]]

AbsolutePositionalEmbedding_init(name, dim, max_seq_len) ==
    [cls |-> "AbsolutePositionalEmbedding",
     emb |-> Embedding(name \o "." \o "emb", max_seq_len, dim)]

FixedPositionalEmbedding_init(dim) ==
    [cls |-> "FixedPositionalEmbedding", dim |-> dim]

DefaultMaxSeqLen == 512

\* TransformerEmbedding.__init__; _init reads self.pos_enc
TransformerEmbedding_init(name, emb_sz, dim, max_seq_len, pos_enc) ==
    LET self0 == [cls |-> "TransformerEmbedding", err |-> "none",
                  emb |-> Embedding(name \o "." \o "emb", emb_sz, dim)]
        self1 ==
            IF pos_enc = "absolute"
            THEN [cls |-> "TransformerEmbedding", err |-> "none", emb |-> self0.emb,
                  pos_enc |-> AbsolutePositionalEmbedding_init(
                                  name \o "." \o "pos_enc", dim, max_seq_len)]
            ELSE IF pos_enc = "fixed"
            THEN IF HasAttr(self0, "FixedPositionalEmbedding")
                 THEN self0
                 ELSE Raise("TransformerEmbedding", "AttributeError")
            ELSE IF pos_enc = "axial"
            THEN Raise("TransformerEmbedding", "NotImplementedError")
            ELSE self0
    IN  IF self1.err # "none" THEN self1
        ELSE IF ~HasAttr(self1, "pos_enc")
        THEN Raise("TransformerEmbedding", "AttributeError")
        ELSE self1

\* tuple indexing: shape[k], k counted from 0
ShapeAt(shape, k) ==
    IF k + 1 <= Len(shape) THEN [err |-> "none", val |-> shape[k + 1]]
    ELSE [err |-> "IndexError"]

\* AbsolutePositionalEmbedding.forward(x): arange(x.shape[1]) looked up
AbsolutePositionalEmbedding_forward(self, xshape) ==
    LET t == ShapeAt(xshape, 1) IN
    IF t.err # "none" THEN [err |-> t.err]
    ELSE IF t.val > self.emb.num_embeddings THEN [err |-> "IndexError"]
    ELSE [err |-> "none", shape |-> <<t.val, self.emb.embedding_dim>>]

\* FixedPositionalEmbedding.forward(x)
FixedPositionalEmbedding_forward(self, xshape) ==
    LET t == ShapeAt(xshape, 1) IN
    IF t.err # "none" THEN [err |-> t.err]
    ELSE [err |-> "none", shape |-> <<1, t.val, self.dim>>]

\* TransformerEmbedding.forward(x) for one row of ids: the positional
\* module is given torch.arange(n), a tensor of shape (n,)
TransformerEmbedding_forward(self, ids) ==
    LET n == Len(ids)
        tok == IF \E k \in 1..n : ids[k] < 0 \/ ids[k] >= self.emb.num_embeddings
               THEN [err |-> "IndexError"]
               ELSE [err |-> "none", shape |-> <<1, n, self.emb.embedding_dim>>]
        pos == IF self.pos_enc.cls = "AbsolutePositionalEmbedding"
               THEN AbsolutePositionalEmbedding_forward(self.pos_enc, <<n>>)
               ELSE FixedPositionalEmbedding_forward(self.pos_enc, <<n>>)
    IN  IF tok.err # "none" THEN tok
        ELSE IF pos.err # "none" THEN pos
        ELSE tok

\* the head split of one Attention: rearrange 'b n (h d) -> b h n d'
HeadSplitOK(attn) == attn.dim % attn.heads = 0

\* TransformerEncoder.forward: every layer is given the same mask
TransformerEncoder_forward(self, xshape, mask) ==
    IF \E l \in DOMAIN self.layers : ~HeadSplitOK(self.layers[l].attn.fn.fn)
    THEN [err |-> "EinopsError"]
    ELSE [err |-> "none", shape |-> xshape, mask |-> mask]

\* TransformerDecoder.forward: every layer is given the same context and
\* masks
TransformerDecoder_forward(self, xshape, context, mask, context_mask) ==
    IF \E l \in DOMAIN self.layers :
          \/ ~HeadSplitOK(self.layers[l].attn.fn.fn)
          \/ ~HeadSplitOK(self.layers[l].cross.fn.fn)
    THEN [err |-> "EinopsError"]
    ELSE [err |-> "none", shape |-> xshape, mask |-> mask,
          context_mask |-> context_mask]

\* if tie_weights: self.proj.weight = self.emb.emb.weight
TieWeights(self) ==
    IF HasAttr(self, "emb")
    THEN [self EXCEPT !.proj.weight = self.emb.emb.weight]
    ELSE Raise(self.cls, "AttributeError")

TransformerLM_init(vocab_sz, dim, depth, heads, causal, max_seq_len, tie_weights) ==
    LET self == [cls |-> "TransformerLM", err |-> "none",
                 max_seq_len |-> max_seq_len,
                 emb |-> TransformerEmbedding_init("emb", vocab_sz, dim,
                                                   max_seq_len, "absolute"),
                 tfmr |-> TransformerEncoder_init(dim, depth, heads, causal),
                 proj |-> Linear("proj", dim, vocab_sz)]
    IN  IF tie_weights THEN TieWeights(self) ELSE self

TransformerLM_forward(self, x, mask) ==
    LET e == TransformerEmbedding_forward(self.emb, x) IN
    IF e.err # "none"
    THEN [fn |-> "TransformerLM.forward", err |-> e.err, x |-> x, mask |-> mask]
    ELSE LET t == TransformerEncoder_forward(self.tfmr, e.shape, mask) IN
         IF t.err # "none"
         THEN [fn |-> "TransformerLM.forward", err |-> t.err, x |-> x, mask |-> mask]
         ELSE [fn |-> "TransformerLM.forward", err |-> "none", x |-> x, mask |-> mask,
               shape |-> <<t.shape[1], t.shape[2], self.proj.out_features>>]

TransformerEncDec_init(enc_vocab_sz, dec_vocab_sz, dim, depth, heads, max_seq_len, pad_idx, tie_weights) ==
    LET self == [cls |-> "TransformerEncDec", err |-> "none",
                 max_seq_len |-> max_seq_len, pad_idx |-> pad_idx,
                 enc_emb |-> TransformerEmbedding_init("enc_emb", enc_vocab_sz, dim,
                                                       max_seq_len, "absolute"),
                 dec_emb |-> TransformerEmbedding_init("dec_emb", dec_vocab_sz, dim,
                                                       max_seq_len, "absolute"),
                 encoder |-> TransformerEncoder_init(dim, depth, heads, FALSE),
                 decoder |-> TransformerDecoder_init(dim, depth, heads),
                 proj |-> Linear("proj", dim, dec_vocab_sz)]
    IN  IF tie_weights THEN TieWeights(self) ELSE self

\* TransformerEncDec.get_padding_mask
get_padding_mask(self, x) ==
    IF self.pad_idx = None THEN None
    ELSE Some([k \in 1..Len(x) |-> x[k] # self.pad_idx[1]])

\* TransformerEncDec.forward; encoder_call and decoder_call are the masks
\* the encoder and the decoder were called with, None when not called
TransformerEncDec_forward(self, src, tgt, src_mask_in, tgt_mask_in) ==
    LET src_mask == default(src_mask_in, get_padding_mask(self, src))
        tgt_mask == default(tgt_mask_in, get_padding_mask(self, tgt))
        result(err, ec, dc, shape) ==
            [fn |-> "TransformerEncDec.forward", src |-> src, tgt |-> tgt,
             src_mask_in |-> src_mask_in, tgt_mask_in |-> tgt_mask_in,
             src_mask |-> src_mask, tgt_mask |-> tgt_mask,
             err |-> err, encoder_call |-> ec, decoder_call |-> dc, shape |-> shape]
        e == TransformerEmbedding_forward(self.enc_emb, src)
        enc == TransformerEncoder_forward(self.encoder, e.shape, src_mask)
        ec == Some([mask |-> src_mask])
        d == TransformerEmbedding_forward(self.dec_emb, tgt)
        out == TransformerDecoder_forward(self.decoder, d.shape, enc.shape,
                                          tgt_mask, src_mask)
        dc == Some([mask |-> tgt_mask, context_mask |-> src_mask])
    IN  IF e.err # "none" THEN result(e.err, None, None, None)
        ELSE IF enc.err # "none" THEN result(enc.err, ec, None, None)
        ELSE IF d.err # "none" THEN result(d.err, ec, None, None)
        ELSE IF out.err # "none" THEN result(out.err, ec, dc, None)
        ELSE result("none", ec, dc,
                    Some(<<out.shape[1], out.shape[2], self.proj.out_features>>))

\* the arguments models are constructed with
ModelDims == {8, 16}

ModelHeads == {4, 8}

\* models take the tokenizer's vocabulary
VocabSz == vocab_size

\* the ids of the rows given to models: the pad id and the id of "A"
Ids == {0, byte_id(65)}

IdSeqs == UNION {[1..n -> Ids] : n \in 1..MaxSeq}

PosEncs == {"absolute", "fixed", "axial"}

NewTransformerEmbedding ==
    /\ obj.cls = "none"
    /\ \E pos_enc \in PosEncs, dim \in ModelDims :
          /\ args' = [emb_sz |-> VocabSz, dim |-> dim, pos_enc |-> pos_enc]
          /\ obj' = TransformerEmbedding_init("self", VocabSz, dim,
                                              DefaultMaxSeqLen, pos_enc)
    /\ UNCHANGED call

TransformerEmbeddingForward ==
    /\ obj.cls = "TransformerEmbedding"
    /\ obj.err = "none"
    /\ call.fn = "none"
    /\ \E x \in IdSeqs :
          LET r == TransformerEmbedding_forward(obj, x) IN
          call' = IF r.err = "none"
                  THEN [fn |-> "TransformerEmbedding.forward", err |-> "none",
                        x |-> x, shape |-> r.shape]
                  ELSE [fn |-> "TransformerEmbedding.forward", err |-> r.err, x |-> x]
    /\ UNCHANGED <<args, obj>>

NewTransformerLM ==
    /\ obj.cls = "none"
    /\ \E dim \in ModelDims, depth \in 1..MaxDepth, heads \in ModelHeads,
          causal \in BOOLEAN, tie_weights \in BOOLEAN :
          /\ args' = [vocab_sz |-> VocabSz, dim |-> dim, depth |-> depth,
                      heads |-> heads, causal |-> causal,
                      max_seq_len |-> DefaultMaxSeqLen, tie_weights |-> tie_weights]
          /\ obj' = TransformerLM_init(VocabSz, dim, depth, heads, causal,
                                       DefaultMaxSeqLen, tie_weights)
    /\ UNCHANGED call

TransformerLMForward ==
    /\ obj.cls = "TransformerLM"
    /\ obj.err = "none"
    /\ call.fn = "none"
    /\ \E x \in IdSeqs : \E mask \in Opt(Masks(Len(x))) :
          call' = TransformerLM_forward(obj, x, mask)
    /\ UNCHANGED <<args, obj>>

NewTransformerEncDec ==
    /\ obj.cls = "none"
    /\ \E dim \in ModelDims, depth \in 1..MaxDepth, heads \in ModelHeads,
          pad_idx \in Opt({0}), tie_weights \in BOOLEAN :
          /\ args' = [enc_vocab_sz |-> VocabSz, dec_vocab_sz |-> VocabSz,
                      dim |-> dim, depth |-> depth, heads |-> heads,
                      max_seq_len |-> DefaultMaxSeqLen, pad_idx |-> pad_idx,
                      tie_weights |-> tie_weights]
          /\ obj' = TransformerEncDec_init(VocabSz, VocabSz, dim, depth, heads,
                                           DefaultMaxSeqLen, pad_idx, tie_weights)
    /\ UNCHANGED call

TransformerEncDecForward ==
    /\ obj.cls = "TransformerEncDec"
    /\ obj.err = "none"
    /\ call.fn = "none"
    /\ \E src \in IdSeqs, tgt \in IdSeqs :
          \E src_mask \in Opt(Masks(Len(src))), tgt_mask \in Opt(Masks(Len(tgt))) :
             call' = TransformerEncDec_forward(obj, src, tgt, src_mask, tgt_mask)
    /\ UNCHANGED <<args, obj>>

\* ---------------------------------------------------------------- system
Init ==
    /\ args = [none |-> TRUE]
    /\ obj = [cls |-> "none"]
    /\ call = [fn |-> "none"]

Next ==
    \/ NewAttention
    \/ AttentionForward
    \/ NewByteTextTokenizer
    \/ TokenizerCall
    \/ TokenizerDecodes
    \/ NewTransformerEmbedding
    \/ TransformerEmbeddingForward
    \/ NewTransformerLM
    \/ TransformerLMForward
    \/ NewTransformerEncDec
    \/ TransformerEncDecForward

Spec == Init /\ [][Next]_vars

\* ---------------------------------------------------------------- claims
AttnDone ==
    /\ obj.cls = "Attention"
    /\ call.fn = "Attention.forward"
    /\ call.err = "none"

\* C1: a causal self-attention gives weight exactly zero from query i to
\* every key j > i, whatever the padding mask.
C1_CausalWeightsZero ==
    (AttnDone /\ obj.causal /\ ~exists(call.context)) =>
        \A i \in 1..call.n : \A j \in 1..call.klen :
            j > i => call.attn_zero[i][j]

\* the padding mask of the key positions: mask in self-attention,
\* context_mask in cross-attention
KeyPadMask == IF exists(call.context) THEN call.context_mask ELSE call.mask

\* C2: a key position the padding mask marks false gets weight zero from
\* every query position, so adds nothing to any output row.
C2_PaddedKeysZero ==
    (AttnDone /\ exists(KeyPadMask)) =>
        \A j \in 1..call.klen :
            ~KeyPadMask[1][j] => \A i \in 1..call.n : call.attn_zero[i][j]

\* C3: TransformerLM.forward on ids in range, no longer than max_seq_len,
\* returns logits of shape (batch, seq, vocab_sz).
C3_LMForwardShape ==
    (obj.cls = "TransformerLM" /\ call.fn = "TransformerLM.forward") =>
        /\ call.err = "none"
        /\ call.shape = <<1, Len(call.x), args.vocab_sz>>

\* the mask the claim expects for ids x and an explicit mask m
ExpectedMask(x, m) ==
    IF m # None THEN m
    ELSE IF args.pad_idx = None THEN None
    ELSE Some([k \in 1..Len(x) |-> x[k] # args.pad_idx[1]])

\* C4: TransformerEncDec.forward uses the explicit mask, else ids # pad_idx,
\* else None; the encoder is given the source mask, the decoder the target
\* mask as mask and the source mask as context_mask.
C4_MasksDerivedAndGiven ==
    (obj.cls = "TransformerEncDec" /\ call.fn = "TransformerEncDec.forward") =>
        LET sm == ExpectedMask(call.src, call.src_mask_in)
            tm == ExpectedMask(call.tgt, call.tgt_mask_in)
        IN  /\ call.src_mask = sm
            /\ call.tgt_mask = tm
            /\ call.encoder_call = Some([mask |-> sm])
            /\ call.decoder_call = Some([mask |-> tm, context_mask |-> sm])

\* the Attention modules of a constructed model
ModelAttentions ==
    IF obj.cls = "TransformerLM"
    THEN {obj.tfmr.layers[l].attn.fn.fn : l \in DOMAIN obj.tfmr.layers}
    ELSE {obj.encoder.layers[l].attn.fn.fn : l \in DOMAIN obj.encoder.layers}
         \cup {obj.decoder.layers[l].attn.fn.fn : l \in DOMAIN obj.decoder.layers}
         \cup {obj.decoder.layers[l].cross.fn.fn : l \in DOMAIN obj.decoder.layers}

\* C5: every Attention of a model constructed with heads = h splits into h
\* heads.
C5_HeadsAsConfigured ==
    (obj.cls \in {"TransformerLM", "TransformerEncDec"} /\ obj.err = "none") =>
        \A a \in ModelAttentions : a.heads = args.heads

\* C6: TransformerEncDec with tie_weights constructs, and its projection's
\* weight is the target embedding table's weight.
C6_TiedToTargetEmbedding ==
    (obj.cls = "TransformerEncDec" /\ args.tie_weights) =>
        /\ obj.err = "none"
        /\ obj.proj.weight = obj.dec_emb.emb.weight
        /\ obj.proj.weight # obj.enc_emb.emb.weight

\* C7: TransformerEmbedding raises NotImplementedError for 'axial' and
\* installs the learned table for 'absolute', the sinusoidal embedding for
\* 'fixed'.
C7_PositionalSchemes ==
    obj.cls = "TransformerEmbedding" =>
        /\ args.pos_enc = "axial" => obj.err = "NotImplementedError"
        /\ args.pos_enc = "absolute" =>
              obj.err = "none" /\ obj.pos_enc.cls = "AbsolutePositionalEmbedding"
        /\ args.pos_enc = "fixed" =>
              obj.err = "none" /\ obj.pos_enc.cls = "FixedPositionalEmbedding"

TokDecoded ==
    /\ obj.cls = "ByteTextTokenizer"
    /\ call.fn = "ByteTextTokenizer.decodes"

\* the ids between the sentinels
ContentIds ==
    LET lo == IF obj.add_bos THEN 2 ELSE 1
        hi == IF obj.add_eos THEN Len(call.ids) - 1 ELSE Len(call.ids)
    IN  SubSeq(call.ids, lo, hi)

ContentIdsAreBytesPlus3 ==
    LET b == StrEncode(call.s) IN
    /\ Len(ContentIds) = Len(b)
    /\ \A k \in 1..Len(b) : ContentIds[k] = b[k] + 3

\* C8 as stated: decoding the encoding of s gives s for every setting of
\* add_bos and add_eos, and each content id is the byte value plus 3.
C8_RoundTripAnySentinels ==
    TokDecoded => (call.decoded = call.s /\ ContentIdsAreBytesPlus3)

BosText == <<60, 98, 111, 115, 62>>

EosText == <<60, 101, 111, 115, 62>>

\* C8 amended: decoding the encoding of s gives s between the text '<bos>'
\* when add_bos is set and the text '<eos>' when add_eos is set, so exactly
\* s when neither is; each content id is the byte value plus 3.
C8_RoundTripUpToSentinels ==
    TokDecoded =>
        /\ call.decoded = (IF obj.add_bos THEN BosText ELSE <<>>) \o call.s
                          \o (IF obj.add_eos THEN EosText ELSE <<>>)
        /\ (~obj.add_bos /\ ~obj.add_eos) => call.decoded = call.s
        /\ ContentIdsAreBytesPlus3

C8_Witness ==
    /\ TokDecoded
    /\ obj.add_bos
    /\ obj.add_eos
    /\ call.s = <<8364, 233>>
    /\ call.decoded = BosText \o <<8364, 233>> \o EosText

\* C9: the factor on the dot products is (dim / heads) ** -0.5.
C9_ScaleFromHeadDim ==
    obj.cls = "Attention" => obj.scale = InvSqrt(obj.dim \div obj.heads)

AllTrue(n) == [k \in 1..n |-> TRUE]

QueryMask == IF exists(call.mask) THEN call.mask[1] ELSE AllTrue(call.n)

ContextMask ==
    IF exists(call.context_mask) THEN call.context_mask[1] ELSE AllTrue(call.klen)

\* the positions filled by the padding fill of line 114
PadFilled ==
    {p \in (1..call.n) \X (1..call.klen) : call.dots_pad[p[1]][p[2]] = MASK_VAL}

Blocked(qm, km) ==
    {p \in (1..call.n) \X (1..call.klen) : ~(qm[p[1]] /\ km[p[2]])}

EitherMask == exists(call.mask) \/ exists(call.context_mask)

\* C10 as stated: with a mask or a context_mask, the filled positions are
\* the complement of the outer product of mask and context_mask, an absent
\* one all-true, with or without a context tensor.
C10_FillIsMaskTimesContextMask ==
    (AttnDone /\ EitherMask) => PadFilled = Blocked(QueryMask, ContextMask)

\* C10 amended: with a mask or a context_mask, the filled positions are the
\* complement of the outer product of the query mask (mask, all-true when
\* absent) and the key mask, which is the query mask when no context tensor
\* is given (context_mask is then not used) and context_mask (all-true when
\* absent) when one is.
C10_FillIsQueryTimesKeyMask ==
    (AttnDone /\ EitherMask) =>
        PadFilled = Blocked(QueryMask,
                            IF exists(call.context) THEN ContextMask ELSE QueryMask)

C10_Witness ==
    /\ AttnDone
    /\ ~exists(call.context)
    /\ call.n = 2
    /\ call.mask = Some(<<TRUE, FALSE>>)
    /\ call.context_mask = Some(<<FALSE, TRUE>>)
    /\ PadFilled = {<<1, 2>>, <<2, 1>>, <<2, 2>>}

====
